---- MODULE Spec2Model ----
(***************************************************************************)
(* The buffered flush worker of highlight-go (src/highlight.go, the        *)
(* revision that starts at line 149): the lifecycle state, the error       *)
(* queue, the interrupt and signal channels, the in-flight WaitGroup, the  *)
(* worker loop spawned by StartWithContext, and concurrent ConsumeError    *)
(* callers.  Every access to shared memory or to a channel is one step.    *)
(* The application calls Start, StartWithContext and Stop from one thread; *)
(* ConsumeError is called from concurrent threads.                         *)
(***************************************************************************)
EXTENDS Naturals, Integers, Sequences, FiniteSets, TLC

(* ---------------------------------------------------------------- bounds *)

\* Concurrent callers of ConsumeError.
NumProducers == 2
\* Capacity of errorChan.  The program makes it with 128 slots
\* (src/highlight.go:286); the model keeps the same blocking semantics with
\* a capacity small enough for the callers to fill it.
\* Spec: the application starts, stops and restarts the worker; each caller
\* makes MaxCalls calls and errorChan holds QueueCap records.
MaxCalls == 1
QueueCap == 1
\* SpecLoad: the worker is left running; each caller makes LoadCalls calls
\* and errorChan holds LoadCap records.
LoadCalls == 2
LoadCap == 2
\* Worker loops ever spawned (StartWithContext calls that passed the check).
MaxLoops == 2

\* Longest X-Highlight-Request header value the request handler receives.
MaxHeaderLen == 3
\* Start() calls the request handler's thread makes.
MaxStartCalls == 2
\* Threads that call Start() concurrently, once each.
NumStarters == 2

\* make(chan bool, 1), make(chan os.Signal, 1)
InterruptCap == 1
SignalCap == 1

Starters == 1..NumStarters
Producers == 1..NumProducers
Loops == 1..MaxLoops

(* ----------------------------------------------------------------- state *)

VARIABLES
  state,          \* appState: "idle", "started", "stopped"
  errorChan,      \* buffered records of errorChan, oldest first
  interruptChan,  \* number of values buffered in interruptChan
  signalChan,     \* number of signals buffered in signalChan
  closed,         \* channel name -> has close() been executed on it
  wg,             \* counter of the sync.WaitGroup
  panicked,       \* "none", or the runtime panic that ended the process
  mpc,            \* the application thread calling Start / Stop
  setup,          \* calls: ConsumeError calls each caller makes;
                  \* capacity: cap(errorChan), fixed by make() in init;
                  \* requester: "mock" (mockRequester) or "graphql"
  ppc, pk, pctx, pres,                      \* ConsumeError callers
  lpc, lcancel, tempChanSize, li, flushedErrors, lsnap,  \* worker loops
  spawned,        \* number of worker loops spawned so far
  enqCount,       \* history: record -> times it entered errorChan
  dlvCount,       \* history: record -> times it was in a batch handed to
                  \*          requester.trigger
  stopReturned,   \* history: a Stop() made in state started has returned
  atShutdown,     \* history: records that were in errorChan (enqueued and
                  \*          not yet flushed) when a shutdown began
  sinceEnq,       \* history: how far a flush got whose size snapshot was
                  \*          taken after the latest enqueue: "none",
                  \*          "snapshot" (taken), "handed" (batch at the sink)
  sinkFailed,     \* history: a requester.trigger call returned an error
  unblocked,      \* history: records whose ConsumeError call was blocked at
                  \*          its send on the full errorChan when a flush
                  \*          freed a slot
  ipc,            \* the request handler: "off", or its position
  startCalls,     \* Start() calls the handler's thread has made
  hdr,            \* value of the request's X-Highlight-Request header
  ctxIn,          \* context passed to InterceptRequestWithContext
  ctxOut,         \* context it returned
  errorInput,     \* value passed to ConsumeError by the handler
  ierr,           \* what that ConsumeError call returned
  ibatch,         \* what the handler's flush() returned
  spc             \* threads calling Start() concurrently: their positions

vars == <<state, errorChan, interruptChan, signalChan, closed, wg, panicked,
          mpc, setup, ppc, pk, pctx, pres,
          lpc, lcancel, tempChanSize, li, flushedErrors, lsnap,
          spawned, enqCount, dlvCount, stopReturned, atShutdown, sinceEnq,
          sinkFailed, unblocked, spc, ipc, startCalls, hdr, ctxIn, ctxOut, errorInput, ierr, ibatch>>

prodVars == <<setup, ppc, pk, pctx, pres>>
loopVars == <<lpc, lcancel, tempChanSize, li, flushedErrors, lsnap>>
histVars ==
  <<enqCount, dlvCount, stopReturned, atShutdown, sinceEnq, sinkFailed,
    unblocked>>
handlerVars ==
  <<ipc, startCalls, hdr, ctxIn, ctxOut, errorInput, ierr, ibatch>>
otherThreads == <<handlerVars, spc>>

Channels == {"errorChan", "interruptChan", "signalChan"}

\* The contexts a caller may pass to ConsumeError: carrying both identifiers,
\* only the request identifier, only the session identifier, or neither.
CtxKinds == {"both", "noSession", "noRequest", "neither"}

\* ctx.Value(ContextKeys.SessionSecureID) != nil
HasSession(c) == c \in {"both", "noRequest"}
\* ctx.Value(ContextKeys.RequestID) != nil
HasRequest(c) == c \in {"both", "noSession"}

consumeErrorSessionIDMissing == "context does not contain highlightSessionSecureID"
consumeErrorRequestIDMissing == "context does not contain highlightRequestID"
consumeErrorWorkerStopped == "highlight worker stopped"

noStackFrames == "no stack frames in stack trace for stackTracer errors"

\* Identifiers and header values are sequences of characters; <<>> is the
\* empty string.
Chars == {"a", "b", "/"}
Headers == UNION {[1..n -> Chars] : n \in 0..MaxHeaderLen}

\* A context is a function from the keys it carries to their values:
\* ctx.Value(key) is nil for a key outside its domain.
\* context.Background().
Background == <<>>
WithValue(ctx, key, v) ==
  [x \in (DOMAIN ctx) \cup {key} |-> IF x = key THEN v ELSE ctx[x]]
\* The context of TestConsumeError: both identifiers "0".
TestCtx ==
  WithValue(WithValue(Background, "SessionSecureID", <<"0">>),
            "RequestID", <<"0">>)

\* strings.Split(h, "/"): the parts of h between the delimiters; a string
\* without delimiter, the empty one too, is its own single part.
RECURSIVE Split(_)
Split(h) ==
  IF \A i \in 1..Len(h) : h[i] # "/" THEN <<h>>
  ELSE LET i == CHOOSE j \in 1..Len(h) :
                  h[j] = "/" /\ \A m \in 1..(j - 1) : h[m] # "/"
       IN  <<SubSeq(h, 1, i - 1)>> \o Split(SubSeq(h, i + 1, Len(h)))

\* An interception that wants a third part before it injects anything.
TooFewPartsOfThree(ids) == Len(ids) < 3

\* Line 369: if len(ids) < 2.
TooFewParts(ids) == Len(ids) < 2

\* Lines 366-375; a request without the header has the value "".
InterceptRequestWithContext(ctx, h) ==
  LET ids == Split(h)
  IN  IF TooFewParts(ids) THEN ctx
      ELSE WithValue(WithValue(ctx, "SessionSecureID", ids[1]),
                     "RequestID", ids[2])

\* Which of the two identifiers a context carries.
CtxKind(ctx) ==
  IF "SessionSecureID" \in DOMAIN ctx
    THEN IF "RequestID" \in DOMAIN ctx THEN "both" ELSE "noRequest"
    ELSE IF "RequestID" \in DOMAIN ctx THEN "noSession" ELSE "neither"

\* The values passed as errorInput: a builtin error, a github.com/pkg/errors
\* error with its stack, a stackTracer whose StackTrace() is empty, and a
\* value that is no error (a string).  msg is Error(), or the %v text.
TestError == [kind |-> "error", msg |-> "error here", stack |-> <<>>]
ErrorInputs ==
  { TestError,
    [kind |-> "stackTracer", msg |-> "error there: error here",
     stack |-> <<"f1", "f2">>],
    [kind |-> "stackTracer", msg |-> "custom", stack |-> <<>>],
    [kind |-> "other", msg |-> "text", stack |-> <<>>] }

\* json.Marshal of a list of strings.
RECURSIVE JsonItems(_)
JsonItems(frames) ==
  IF frames = <<>> THEN ""
  ELSE IF Len(frames) = 1 THEN "\"" \o frames[1] \o "\""
  ELSE "\"" \o frames[1] \o "\"," \o JsonItems(Tail(frames))
JsonMarshal(frames) ==
  IF frames = <<>> THEN "null" ELSE "[" \o JsonItems(frames) \o "]"

\* fmt.Sprintf("%v", v) of a string value is the string.
SprintfV(v) == v

\* Lines 408-434: the Event and StackTrace fields for each case of the type
\* switch.
EventOf(e) == e.msg
StackTraceOf(e) ==
  IF e.kind = "stackTracer" THEN JsonMarshal(e.stack) ELSE e.msg

\* BackendErrorObjectInput{}: the zero value of the record type.
ZeroRecord ==
  [SessionSecureID |-> <<>>, RequestID |-> <<>>, Type |-> "", Event |-> "",
   StackTrace |-> "", Payload |-> <<>>]

\* Lines 400-434: the record built from a context carrying both identifiers
\* and an error value; addr is the address of the call's own tagsString, so
\* the records of two calls are never equal.  The timestamp is left out.
BuildRecord(ctx, e, addr) ==
  [SessionSecureID |-> SprintfV(ctx["SessionSecureID"]),
   RequestID |-> SprintfV(ctx["RequestID"]),
   Type |-> "BACKEND",
   Event |-> EventOf(e),
   StackTrace |-> StackTraceOf(e),
   Payload |-> addr]

\* The record of the k-th call of caller p, made as TestConsumeError makes
\* its calls.
convertedError(p, k) == BuildRecord(TestCtx, TestError, <<p, k>>)

\* Every record a ConsumeError call of the model can build.
MaxWorkload == IF LoadCalls > MaxCalls THEN LoadCalls ELSE MaxCalls
Records == {convertedError(p, k) : p \in Producers, k \in 1..MaxWorkload}

(* ------------------------------------------------ channel and flush helpers *)

\* A send that never waits for a free slot.
ChanAlwaysRoom(q, n) == TRUE

\* A send on a channel of n slots goes through when a slot is free and
\* blocks otherwise (errorChan: make(chan BackendErrorObjectInput, 128)).
ChanHasRoom(q, n) == Len(q) < n

\* A flush that takes the queue for empty.
LenChanZero(q) == 0

\* A flush loop that runs one iteration too many (i <= tempChanSize).
LenChanPlusOne(q) == Len(q) + 1

\* len(errorChan)
LenChan(q) == Len(q)

\* A receive that reads the oldest record without removing it.
ChanRecvKeep(q) == q

\* The buffer left after one receive from a non-empty channel.
ChanRecvRest(q) == Tail(q)

\* e == (BackendErrorObjectInput{})
IsSentinel(e) == e = ZeroRecord

\* An append of the address of one variable shared by all iterations: every
\* entry of the batch then points at the record received last.
FlushAppendAliased(batch, e) == [i \in 1..(Len(batch) + 1) |-> e]

\* An append of a fresh zero value in place of the record received.
FlushAppendBlank(batch, e) == Append(batch, ZeroRecord)

\* A batch built newest first.
FlushPrepend(batch, e) == <<e>> \o batch

\* flushedErrors = append(flushedErrors, &e); e is declared inside the loop
\* body, so every entry points at its own record.
FlushAppend(batch, e) == Append(batch, e)

\* A Start that never returns early.
StartAlwaysSpawns(s) == FALSE

\* Line 307: if state == started { return }.
StartReturnsEarly(s) == s = "started"

\* A ConsumeError that takes errors only from a started worker.
StateNotStarted(s) == s # "started"

\* A ConsumeError that never looks at the lifecycle state.
StateNeverStopped(s) == FALSE

\* Line 380: if state == stopped.
StateIsStopped(s) == s = "stopped"

\* The identifier checks in the other order: request first.
MissingIDRequestFirst(c) ==
  IF ~HasRequest(c) THEN consumeErrorRequestIDMissing
  ELSE IF ~HasSession(c) THEN consumeErrorSessionIDMissing
  ELSE "none"

\* Lines 386-393: the session identifier is looked up first, then the
\* request identifier; "none" when both are there.
MissingID(c) ==
  IF ~HasSession(c) THEN consumeErrorSessionIDMissing
  ELSE IF ~HasRequest(c) THEN consumeErrorRequestIDMissing
  ELSE "none"

\* A worker that gives up when the sink returns an error.
AfterTriggerFatal(err) == IF err = "nil" THEN "select" ELSE "shutdown"

\* Line 319: _ = requester.trigger(flushedErrors).  The result is discarded
\* and the loop goes round to its select.
AfterTrigger(err) == "select"

\* What requester.trigger can return: mockRequester (lines 266-270) always
\* nil, graphqlRequester (lines 246-262) nil or the error of client.Mutate.
TriggerResults(r) == IF r = "mock" THEN {"nil"} ELSE {"nil", "error"}

InitWith(n, k, rq) ==
  /\ setup = [calls |-> n, capacity |-> k, requester |-> rq]
  /\ state = "idle"
  /\ errorChan = <<>>
  /\ interruptChan = 0
  /\ signalChan = 0
  /\ closed = [c \in Channels |-> FALSE]
  /\ wg = 0
  /\ panicked = "none"
  /\ mpc = "idle"
  /\ ppc = [p \in Producers |-> "idle"]
  /\ pk = [p \in Producers |-> 0]
  /\ pctx = [p \in Producers |-> "both"]
  /\ pres = [p \in Producers |-> "none"]
  /\ lpc = [l \in Loops |-> "none"]
  /\ lcancel = [l \in Loops |-> FALSE]
  /\ tempChanSize = [l \in Loops |-> 0]
  /\ li = [l \in Loops |-> 0]
  /\ flushedErrors = [l \in Loops |-> <<>>]
  /\ lsnap = [l \in Loops |-> <<>>]
  /\ spawned = 0
  /\ enqCount = [r \in Records |-> 0]
  /\ dlvCount = [r \in Records |-> 0]
  /\ stopReturned = FALSE
  /\ atShutdown = {}
  /\ sinceEnq = "none"
  /\ sinkFailed = FALSE
  /\ unblocked = {}
  /\ spc = [t \in Starters |-> "idle"]
  /\ startCalls = 0
  /\ hdr = <<>>
  /\ ctxIn = Background
  /\ ctxOut = Background
  /\ errorInput = TestError
  /\ ierr = "none"
  /\ ibatch = <<>>

Init == InitWith(MaxCalls, QueueCap, "mock") /\ ipc = "off"

\* The same program with callers that make LoadCalls calls each, an
\* errorChan of LoadCap slots, and the requester that talks to the backend.
InitLoad == InitWith(LoadCalls, LoadCap, "graphql") /\ ipc = "off"

\* A runtime panic ends the process: nothing runs after it.
Alive == panicked = "none"

(* ------------------------------------------- the application thread *)

\* Start() / StartWithContext(ctx), line 307: if state == started { return }.
StartCheck ==
  /\ Alive
  /\ UNCHANGED otherThreads
  /\ mpc = "idle"
  /\ StartReturnsEarly(state) \/ spawned < MaxLoops
  /\ mpc' = IF StartReturnsEarly(state) THEN "idle" ELSE "start_set"
  /\ UNCHANGED <<state, errorChan, interruptChan, signalChan, closed, wg,
                 panicked, prodVars, loopVars, spawned, histVars>>

\* Lines 310-312: state = started; go func() { for { select ... } }().
\* The new loop watches the context of this call (Start passes
\* context.Background(), which is never cancelled).
StartSet ==
  /\ Alive
  /\ UNCHANGED otherThreads
  /\ mpc = "start_set"
  /\ state' = "started"
  /\ spawned' = spawned + 1
  /\ lpc' = [lpc EXCEPT ![spawned + 1] = "select"]
  /\ mpc' = "idle"
  /\ UNCHANGED <<errorChan, interruptChan, signalChan, closed, wg, panicked,
                 prodVars, lcancel, tempChanSize, li, flushedErrors, lsnap,
                 histVars>>

\* Stop(), line 336: if state == stopped || state == idle { return }.
StopCheck ==
  /\ Alive
  /\ UNCHANGED otherThreads
  /\ mpc = "idle"
  /\ mpc' = IF state \in {"stopped", "idle"} THEN "idle" ELSE "stop_send"
  /\ UNCHANGED <<state, errorChan, interruptChan, signalChan, closed, wg,
                 panicked, prodVars, loopVars, spawned, histVars>>

\* Line 339: interruptChan <- true.  The send blocks while the buffer is
\* full and panics when the channel has been closed.
StopSend ==
  /\ Alive
  /\ UNCHANGED otherThreads
  /\ mpc = "stop_send"
  /\ IF closed["interruptChan"]
       THEN /\ panicked' = "send on closed interruptChan"
            /\ UNCHANGED <<interruptChan, mpc, stopReturned>>
       ELSE /\ interruptChan < InterruptCap
            /\ interruptChan' = interruptChan + 1
            /\ mpc' = "idle"
            /\ stopReturned' = TRUE
            /\ UNCHANGED panicked
  /\ UNCHANGED <<state, errorChan, signalChan, closed, wg, prodVars,
                 loopVars, spawned, enqCount, dlvCount, atShutdown, sinceEnq,
                 sinkFailed, unblocked>>

\* Start() called by thread t concurrently with the other threads: the read
\* of line 307 and the write of line 311 are two steps with nothing that
\* keeps another thread from running between them.
StarterCheck(t) ==
  /\ Alive
  /\ spc[t] = "idle"
  /\ \/ StartReturnsEarly(state)
     \/ spawned + Cardinality({u \in Starters : spc[u] = "start_set"}) < MaxLoops
  /\ spc' = [spc EXCEPT ![t] = IF StartReturnsEarly(state) THEN "returned"
                                                           ELSE "start_set"]
  /\ UNCHANGED <<state, errorChan, interruptChan, signalChan, closed, wg,
                 panicked, mpc, prodVars, loopVars, spawned, histVars,
                 handlerVars>>

\* Lines 311-312 for thread t: state = started; go func() { ... }().
StarterSet(t) ==
  /\ Alive
  /\ spc[t] = "start_set"
  /\ state' = "started"
  /\ spawned' = spawned + 1
  /\ lpc' = [lpc EXCEPT ![spawned + 1] = "select"]
  /\ spc' = [spc EXCEPT ![t] = "returned"]
  /\ UNCHANGED <<errorChan, interruptChan, signalChan, closed, wg, panicked,
                 mpc, prodVars, lcancel, tempChanSize, li, flushedErrors,
                 lsnap, histVars, handlerVars>>

(* ------------------------------------------------------ the environment *)

\* A SIGABRT, SIGTERM or SIGINT arrives: os/signal makes a non-blocking send
\* on signalChan (registered by signal.Notify at line 290), which drops the
\* signal when the buffer is full and panics when the channel was closed.
\* Only a select reads the open channel, so a signal that arrives while no
\* loop is at its select is taken at the moment one gets there.
Signal ==
  /\ Alive
  /\ UNCHANGED otherThreads
  /\ closed["signalChan"] \/ \E l \in Loops : lpc[l] = "select"
  /\ IF closed["signalChan"]
       THEN /\ panicked' = "send on closed signalChan"
            /\ UNCHANGED signalChan
       ELSE /\ signalChan' = IF signalChan < SignalCap THEN signalChan + 1
                                                       ELSE signalChan
            /\ UNCHANGED panicked
  /\ UNCHANGED <<state, errorChan, interruptChan, closed, wg, mpc, prodVars,
                 loopVars, spawned, histVars>>

\* The caller cancels the context it gave to the StartWithContext call that
\* spawned loop l.  Only the select of loop l observes it, so a cancellation
\* that happens while the loop is elsewhere is taken at the moment the loop
\* is back at its select.
CancelCtx(l) ==
  /\ Alive
  /\ UNCHANGED otherThreads
  /\ lpc[l] = "select"
  /\ ~lcancel[l]
  /\ lcancel' = [lcancel EXCEPT ![l] = TRUE]
  /\ UNCHANGED <<state, errorChan, interruptChan, signalChan, closed, wg,
                 panicked, mpc, prodVars, lpc, tempChanSize, li,
                 flushedErrors, lsnap, spawned, histVars>>

(* ----------------------------------------------- ConsumeError callers *)

\* ConsumeError, lines 380-382: if state == stopped { return WorkerStopped }.
\* c is the context the caller passes.
ConsumeCheck(p, c) ==
  /\ Alive
  /\ UNCHANGED otherThreads
  /\ ppc[p] = "idle"
  /\ pk[p] < setup.calls
  /\ pk' = [pk EXCEPT ![p] = @ + 1]
  /\ IF StateIsStopped(state)
       THEN /\ pres' = [pres EXCEPT ![p] = consumeErrorWorkerStopped]
            /\ UNCHANGED <<ppc, pctx>>
       ELSE /\ pres' = [pres EXCEPT ![p] = "none"]
            /\ ppc' = [ppc EXCEPT ![p] = "add"]
            /\ pctx' = [pctx EXCEPT ![p] = c]
  /\ UNCHANGED <<state, errorChan, interruptChan, signalChan, closed, wg,
                 panicked, mpc, setup, loopVars, spawned, histVars>>

\* Lines 383-434: defer wg.Done(); wg.Add(1); then the identifiers are read
\* from the context and the record is built (local to the call).
ConsumeAdd(p) ==
  /\ Alive
  /\ UNCHANGED otherThreads
  /\ ppc[p] = "add"
  /\ wg' = wg + 1
  /\ ppc' = [ppc EXCEPT ![p] = IF MissingID(pctx[p]) = "none" THEN "send"
                                                               ELSE "ret_err"]
  /\ UNCHANGED <<state, errorChan, interruptChan, signalChan, closed,
                 panicked, mpc, setup, pk, pctx, pres, loopVars, spawned,
                 histVars>>

\* Lines 387-393: a missing identifier returns its error; the deferred
\* wg.Done() runs on the way out.
ConsumeRetErr(p) ==
  /\ Alive
  /\ UNCHANGED otherThreads
  /\ ppc[p] = "ret_err"
  /\ wg' = wg - 1
  /\ pres' = [pres EXCEPT ![p] = MissingID(pctx[p])]
  /\ ppc' = [ppc EXCEPT ![p] = "idle"]
  /\ pctx' = [pctx EXCEPT ![p] = "both"]
  /\ UNCHANGED <<state, errorChan, interruptChan, signalChan, closed,
                 panicked, mpc, setup, pk, loopVars, spawned, histVars>>

\* Line 435: errorChan <- convertedError.  The send blocks while the buffer
\* is full and panics when the channel has been closed.
ConsumeSend(p) ==
  /\ Alive
  /\ UNCHANGED otherThreads
  /\ ppc[p] = "send"
  /\ IF closed["errorChan"]
       THEN /\ panicked' = "send on closed errorChan"
            /\ UNCHANGED <<errorChan, enqCount, sinceEnq, ppc>>
       ELSE /\ ChanHasRoom(errorChan, setup.capacity)
            /\ errorChan' = Append(errorChan, convertedError(p, pk[p]))
            /\ enqCount' = [enqCount EXCEPT ![convertedError(p, pk[p])] = @ + 1]
            /\ sinceEnq' = "none"
            /\ ppc' = [ppc EXCEPT ![p] = "sent"]
            /\ UNCHANGED panicked
  /\ UNCHANGED <<state, interruptChan, signalChan, closed, wg, mpc, setup,
                 pk, pctx, pres, loopVars, spawned, dlvCount, stopReturned,
                 atShutdown,
                 sinkFailed, unblocked>>

\* Line 436: return nil, running the deferred wg.Done().
ConsumeReturn(p) ==
  /\ Alive
  /\ UNCHANGED otherThreads
  /\ ppc[p] = "sent"
  /\ wg' = wg - 1
  /\ pres' = [pres EXCEPT ![p] = "nil"]
  /\ ppc' = [ppc EXCEPT ![p] = "idle"]
  /\ UNCHANGED <<state, errorChan, interruptChan, signalChan, closed,
                 panicked, mpc, setup, pk, pctx, loopVars, spawned,
                 histVars>>

(* ------------------------------------------------------ the worker loop *)

\* The stop cases of the select that are ready for loop l: a receive is
\* ready when a value is buffered or the channel is closed.
InterruptReady == interruptChan > 0 \/ closed["interruptChan"]
SignalReady == signalChan > 0 \/ closed["signalChan"]
CtxDoneReady(l) == lcancel[l]
StopPending(l) == InterruptReady \/ SignalReady \/ CtxDoneReady(l)

\* Lines 315-316: case <-time.After(...): wg.Add(1).  The step is the select
\* choosing the timer case, so the timer has expired when it is taken; when
\* other cases are ready too, select chooses any ready case.
SelectTimer(l) ==
  /\ Alive
  /\ UNCHANGED otherThreads
  /\ lpc[l] = "select"
  /\ wg' = wg + 1
  /\ lpc' = [lpc EXCEPT ![l] = "flush_len"]
  /\ UNCHANGED <<state, errorChan, interruptChan, signalChan, closed,
                 panicked, mpc, prodVars, lcancel, tempChanSize, li,
                 flushedErrors, lsnap, spawned, histVars>>

\* Lines 446-447: tempChanSize := len(errorChan); var flushedErrors.
\* lsnap remembers the buffer at this instant.
FlushLen(l) ==
  /\ Alive
  /\ UNCHANGED otherThreads
  /\ lpc[l] = "flush_len"
  /\ tempChanSize' = [tempChanSize EXCEPT ![l] = LenChan(errorChan)]
  /\ li' = [li EXCEPT ![l] = 0]
  /\ flushedErrors' = [flushedErrors EXCEPT ![l] = <<>>]
  /\ lsnap' = [lsnap EXCEPT ![l] = errorChan]
  /\ lpc' = [lpc EXCEPT ![l] = "flush_recv"]
  /\ sinceEnq' = "snapshot"
  /\ UNCHANGED <<state, errorChan, interruptChan, signalChan, closed, wg,
                 panicked, mpc, prodVars, lcancel, spawned, enqCount,
                 dlvCount, stopReturned, atShutdown,
                 sinkFailed, unblocked>>

\* Lines 448-454, one iteration: e := <-errorChan, skipped when it is the
\* zero record, appended otherwise.  A receive from an empty channel blocks
\* unless the channel is closed, and then yields the zero record.
FlushRecv(l) ==
  /\ Alive
  /\ UNCHANGED otherThreads
  /\ lpc[l] = "flush_recv"
  /\ li[l] < tempChanSize[l]
  /\ errorChan # <<>> \/ closed["errorChan"]
  /\ LET e == IF errorChan # <<>> THEN Head(errorChan) ELSE ZeroRecord
     IN  /\ errorChan' = IF errorChan # <<>> THEN ChanRecvRest(errorChan)
                                             ELSE errorChan
         /\ flushedErrors' =
              [flushedErrors EXCEPT ![l] = IF IsSentinel(e) THEN @
                                           ELSE FlushAppend(@, e)]
  /\ li' = [li EXCEPT ![l] = @ + 1]
  /\ unblocked' =
       IF errorChan # <<>> /\ Len(errorChan) >= setup.capacity
         THEN unblocked \cup {convertedError(p, pk[p]) :
                                p \in {x \in Producers : ppc[x] = "send"}}
         ELSE unblocked
  /\ UNCHANGED <<state, interruptChan, signalChan, closed, wg, panicked,
                 mpc, prodVars, lpc, lcancel, tempChanSize, lsnap, spawned,
                 enqCount, dlvCount, stopReturned, atShutdown,
                 sinceEnq, sinkFailed>>

\* Lines 455 and 318: flush returns; wg.Done().
FlushDone(l) ==
  /\ Alive
  /\ UNCHANGED otherThreads
  /\ lpc[l] = "flush_recv"
  /\ li[l] >= tempChanSize[l]
  /\ wg' = wg - 1
  /\ lpc' = [lpc EXCEPT ![l] = "trigger"]
  /\ UNCHANGED <<state, errorChan, interruptChan, signalChan, closed,
                 panicked, mpc, prodVars, lcancel, tempChanSize, li,
                 flushedErrors, lsnap, spawned, histVars>>

\* Line 319: _ = requester.trigger(flushedErrors).  graphqlRequester.trigger
\* (lines 246-249) returns at once for an empty batch and otherwise submits
\* the batch.
Trigger(l) ==
  /\ Alive
  /\ UNCHANGED otherThreads
  /\ lpc[l] = "trigger"
  /\ lpc' = [lpc EXCEPT ![l] = IF flushedErrors[l] = <<>> THEN "select"
                                                          ELSE "in_sink"]
  /\ dlvCount' = [r \in Records |->
                    dlvCount[r] + Cardinality({i \in 1..Len(flushedErrors[l]) :
                                                 flushedErrors[l][i] = r})]
  /\ tempChanSize' = [tempChanSize EXCEPT ![l] = 0]
  /\ li' = [li EXCEPT ![l] = 0]
  /\ flushedErrors' = [flushedErrors EXCEPT ![l] = <<>>]
  /\ lsnap' = [lsnap EXCEPT ![l] = <<>>]
  /\ sinceEnq' = IF sinceEnq = "snapshot" THEN "handed" ELSE sinceEnq
  /\ UNCHANGED <<state, errorChan, interruptChan, signalChan, closed, wg,
                 panicked, mpc, prodVars, lcancel, spawned, enqCount,
                 stopReturned, atShutdown,
                 sinkFailed, unblocked>>

\* The sink call returns; its result (nil or an error) is discarded by
\* `_ =` at line 319 and the loop goes back to the select.
SinkReturn(l) ==
  /\ Alive
  /\ UNCHANGED otherThreads
  /\ lpc[l] = "in_sink"
  /\ \E err \in TriggerResults(setup.requester) :
       /\ lpc' = [lpc EXCEPT ![l] = AfterTrigger(err)]
       /\ sinkFailed' = (sinkFailed \/ err # "nil")
  /\ UNCHANGED <<state, errorChan, interruptChan, signalChan, closed, wg,
                 panicked, mpc, prodVars, lcancel, tempChanSize, li,
                 flushedErrors, lsnap, spawned, enqCount, dlvCount,
                 stopReturned, atShutdown, sinceEnq, unblocked>>

\* Lines 320-322: case <-interruptChan: shutdown().
SelectInterrupt(l) ==
  /\ Alive
  /\ UNCHANGED otherThreads
  /\ lpc[l] = "select"
  /\ InterruptReady
  /\ interruptChan' = IF interruptChan > 0 THEN interruptChan - 1 ELSE 0
  /\ lpc' = [lpc EXCEPT ![l] = "shutdown"]
  /\ UNCHANGED <<state, errorChan, signalChan, closed, wg, panicked, mpc,
                 prodVars, lcancel, tempChanSize, li, flushedErrors, lsnap,
                 spawned, histVars>>

\* Lines 323-325: case <-signalChan: shutdown().
SelectSignal(l) ==
  /\ Alive
  /\ UNCHANGED otherThreads
  /\ lpc[l] = "select"
  /\ SignalReady
  /\ signalChan' = IF signalChan > 0 THEN signalChan - 1 ELSE 0
  /\ lpc' = [lpc EXCEPT ![l] = "shutdown"]
  /\ UNCHANGED <<state, errorChan, interruptChan, closed, wg, panicked, mpc,
                 prodVars, lcancel, tempChanSize, li, flushedErrors, lsnap,
                 spawned, histVars>>

\* Lines 326-328: case <-ctx.Done(): shutdown().
SelectCtxDone(l) ==
  /\ Alive
  /\ UNCHANGED otherThreads
  /\ lpc[l] = "select"
  /\ CtxDoneReady(l)
  /\ lpc' = [lpc EXCEPT ![l] = "shutdown"]
  /\ UNCHANGED <<state, errorChan, interruptChan, signalChan, closed, wg,
                 panicked, mpc, prodVars, lcancel, tempChanSize, li,
                 flushedErrors, lsnap, spawned, histVars>>

\* shutdown(), lines 459-462: return when state is stopped or idle,
\* otherwise state = stopped.  The loop returns after shutdown().
ShutdownCheck(l) ==
  /\ Alive
  /\ UNCHANGED otherThreads
  /\ lpc[l] = "shutdown"
  /\ IF state \in {"stopped", "idle"}
       THEN /\ lpc' = [lpc EXCEPT ![l] = "exited"]
            /\ UNCHANGED <<state, atShutdown>>
       ELSE /\ state' = "stopped"
            /\ lpc' = [lpc EXCEPT ![l] = "wg_wait"]
            /\ atShutdown' = atShutdown \cup {errorChan[i] : i \in 1..Len(errorChan)}
  /\ UNCHANGED <<errorChan, interruptChan, signalChan, closed, wg, panicked,
                 mpc, prodVars, lcancel, tempChanSize, li, flushedErrors,
                 lsnap, spawned, enqCount, dlvCount, stopReturned, sinceEnq,
                 sinkFailed, unblocked>>

\* Line 463: wg.Wait() returns when the counter is zero.
WgWait(l) ==
  /\ Alive
  /\ UNCHANGED otherThreads
  /\ lpc[l] = "wg_wait"
  /\ wg = 0
  /\ lpc' = [lpc EXCEPT ![l] = "close_errorChan"]
  /\ UNCHANGED <<state, errorChan, interruptChan, signalChan, closed, wg,
                 panicked, mpc, prodVars, lcancel, tempChanSize, li,
                 flushedErrors, lsnap, spawned, histVars>>

\* The statement after close(c) in shutdown.
AfterClose(c) ==
  CASE c = "errorChan" -> "close_interruptChan"
    [] c = "interruptChan" -> "close_signalChan"
    [] c = "signalChan" -> "exited"

\* Lines 464-466: close(errorChan); close(interruptChan); close(signalChan).
\* Closing a closed channel panics.
CloseChan(l, c) ==
  /\ Alive
  /\ UNCHANGED otherThreads
  /\ lpc[l] = "close_" \o c
  /\ IF closed[c]
       THEN /\ panicked' = "close of closed " \o c
            /\ UNCHANGED <<closed, lpc>>
       ELSE /\ closed' = [closed EXCEPT ![c] = TRUE]
            /\ lpc' = [lpc EXCEPT ![l] = AfterClose(c)]
            /\ UNCHANGED panicked
  /\ UNCHANGED <<state, errorChan, interruptChan, signalChan, wg, mpc,
                 prodVars, lcancel, tempChanSize, li, flushedErrors, lsnap,
                 spawned, histVars>>

(* --------------------------------------------------- a request handler *)

\* One request handled on one thread, the way the middlewares and
\* TestConsumeError use the package: the context comes from
\* InterceptRequestWithContext, one ConsumeError call follows, then a manual
\* flush().  The worker's timer does not expire meanwhile, so nothing runs
\* between the steps of a call and each call is one step.

\* What ConsumeError returns in state s for context ctx and value e: the
\* checks of lines 380, 387, 391 and 411 in their order, "nil" at line 436.
ConsumeErrorResult(s, ctx, e) ==
  IF StateIsStopped(s) THEN consumeErrorWorkerStopped
  ELSE IF MissingID(CtxKind(ctx)) # "none" THEN MissingID(CtxKind(ctx))
  ELSE IF e.kind = "stackTracer" /\ Len(e.stack) < 1 THEN noStackFrames
  ELSE "nil"

\* flush(), lines 445-456, with n iterations to go: the batch and what is
\* left on the queue.
RECURSIVE FlushLoop(_, _, _)
FlushLoop(q, n, batch) ==
  IF n = 0 \/ q = <<>> THEN [batch |-> batch, rest |-> q]
  ELSE FlushLoop(ChanRecvRest(q), n - 1,
                 IF IsSentinel(Head(q)) THEN batch
                                        ELSE FlushAppend(batch, Head(q)))

\* Start(), as TestConsumeError calls it before every ConsumeError: lines
\* 307-312 in one step.
HandlerStart ==
  /\ Alive
  /\ ipc = "request"
  /\ startCalls < MaxStartCalls
  /\ StartReturnsEarly(state) \/ spawned < MaxLoops
  /\ startCalls' = startCalls + 1
  /\ IF StartReturnsEarly(state)
       THEN UNCHANGED <<state, spawned, lpc>>
       ELSE /\ state' = "started"
            /\ spawned' = spawned + 1
            /\ lpc' = [lpc EXCEPT ![spawned + 1] = "select"]
  /\ UNCHANGED <<errorChan, interruptChan, signalChan, closed, wg, panicked,
                 mpc, prodVars, lcancel, tempChanSize, li, flushedErrors,
                 lsnap, histVars, ipc, hdr, ctxIn, ctxOut, errorInput, ierr,
                 ibatch, spc>>

\* ctx = InterceptRequestWithContext(ctx, r) for a request with any header
\* value and an incoming context with or without identifiers of its own.
HandlerIntercept ==
  /\ Alive
  /\ ipc = "request"
  /\ \E h \in Headers, c \in {Background, TestCtx} :
       /\ hdr' = h
       /\ ctxIn' = c
       /\ ctxOut' = InterceptRequestWithContext(c, h)
  /\ ipc' = "consume"
  /\ UNCHANGED <<state, errorChan, interruptChan, signalChan, closed, wg,
                 panicked, mpc, prodVars, loopVars, spawned, histVars,
                 startCalls, errorInput, ierr, ibatch, spc>>

\* err := ConsumeError(ctx, errorInput).  wg.Add(1) and the deferred
\* wg.Done() cancel out; the send at line 435 needs a free slot.
HandlerConsume ==
  /\ Alive
  /\ ipc = "consume"
  /\ \E e \in ErrorInputs :
       /\ errorInput' = e
       /\ ierr' = ConsumeErrorResult(state, ctxOut, e)
       /\ IF ConsumeErrorResult(state, ctxOut, e) = "nil"
            THEN /\ ChanHasRoom(errorChan, setup.capacity)
                 /\ errorChan' = Append(errorChan, BuildRecord(ctxOut, e, <<0, 0>>))
            ELSE UNCHANGED errorChan
  /\ ipc' = "flush"
  /\ UNCHANGED <<state, interruptChan, signalChan, closed, wg, panicked,
                 mpc, prodVars, loopVars, spawned, histVars, startCalls, hdr,
                 ctxIn, ctxOut, ibatch, spc>>

\* a := flush().  A receive beyond the records on the open queue would
\* block for good.
HandlerFlush ==
  /\ Alive
  /\ ipc = "flush"
  /\ LenChan(errorChan) <= Len(errorChan)
  /\ ibatch' = FlushLoop(errorChan, LenChan(errorChan), <<>>).batch
  /\ errorChan' = FlushLoop(errorChan, LenChan(errorChan), <<>>).rest
  /\ ipc' = "done"
  /\ UNCHANGED <<state, interruptChan, signalChan, closed, wg, panicked,
                 mpc, prodVars, loopVars, spawned, histVars, startCalls, hdr,
                 ctxIn, ctxOut, errorInput, ierr, spc>>

(* ------------------------------------------------------- specification *)

MainStep ==
  \/ StartCheck
  \/ StartSet
  \/ StopCheck
  \/ StopSend

ProducerStep(p) ==
  \/ \E c \in CtxKinds : ConsumeCheck(p, c)
  \/ ConsumeAdd(p)
  \/ ConsumeRetErr(p)
  \/ ConsumeSend(p)
  \/ ConsumeReturn(p)

LoopStep(l) ==
  \/ SelectTimer(l)
  \/ FlushLen(l)
  \/ FlushRecv(l)
  \/ FlushDone(l)
  \/ Trigger(l)
  \/ SinkReturn(l)
  \/ SelectInterrupt(l)
  \/ SelectSignal(l)
  \/ SelectCtxDone(l)
  \/ ShutdownCheck(l)
  \/ WgWait(l)
  \/ \E c \in Channels : CloseChan(l, c)

Next ==
  \/ MainStep
  \/ Signal
  \/ \E l \in Loops : CancelCtx(l)
  \/ \E p \in Producers : ProducerStep(p)
  \/ \E l \in Loops : LoopStep(l)

Spec == Init /\ [][Next]_vars

\* The flush cycle of a loop that no stop trigger reaches.
FlushCycle(l) ==
  \/ SelectTimer(l)
  \/ FlushLen(l)
  \/ FlushRecv(l)
  \/ FlushDone(l)
  \/ Trigger(l)
  \/ SinkReturn(l)

\* The worker is started and left running: no Stop, no termination signal,
\* no cancellation.
NextLoad ==
  \/ StartCheck
  \/ StartSet
  \/ \E p \in Producers : ProducerStep(p)
  \/ \E l \in Loops : FlushCycle(l)

SpecLoad == InitLoad /\ [][NextLoad]_vars

\* The running worker under a fair scheduler: the timer of the select
\* expires and the sink call returns, so the loop keeps going through its
\* flush cycle; a caller that can take a step does, and a sender blocked on
\* the full queue gets a slot that a receive frees again and again.  The
\* application is under no obligation to call Start.
FairLoad ==
  /\ SpecLoad
  /\ \A l \in Loops : WF_vars(FlushCycle(l))
  /\ \A p \in Producers : SF_vars(ProducerStep(p))

\* ConsumeError is called only before Start: the callers run while the state
\* is idle (a call still in flight when the worker starts stays in flight),
\* then the application starts the worker, which goes through its flush
\* cycles.
NextIdle ==
  \/ StartCheck
  \/ StartSet
  \/ state = "idle" /\ \E p \in Producers : ProducerStep(p)
  \/ \E l \in Loops : FlushCycle(l)

SpecIdle == InitLoad /\ [][NextIdle]_vars

\* Threads that call Start() concurrently on the idle worker, next to the
\* ConsumeError callers and the flush cycles of the loops they spawn.
NextStarters ==
  \/ \E t \in Starters : StarterCheck(t)
  \/ \E t \in Starters : StarterSet(t)
  \/ \E p \in Producers : ProducerStep(p)
  \/ \E l \in Loops : FlushCycle(l)

SpecStarters == Init /\ [][NextStarters]_vars

\* The request handler, on a worker that is idle or that the handler's
\* thread started and whose timer has not expired yet.
InitHandler == InitWith(MaxCalls, QueueCap, "mock") /\ ipc = "request"

NextHandler ==
  \/ HandlerStart
  \/ HandlerIntercept
  \/ HandlerConsume
  \/ HandlerFlush

SpecHandler == InitHandler /\ [][NextHandler]_vars

\* The Go scheduler runs every goroutine that can take a step, and a timer
\* that was set expires.  A select chooses among its ready cases at random,
\* so a case that is ready again and again is chosen in the end; wg.Wait()
\* is released when the counter reaches zero, and a sender blocked on a full
\* channel gets the slot a receive frees, whatever happens afterwards.  The
\* application thread is under no obligation to call anything.
FairSpec ==
  /\ Spec
  /\ \A l \in Loops : WF_vars(LoopStep(l))
  /\ \A l \in Loops :
       SF_vars(SelectInterrupt(l) \/ SelectSignal(l) \/ SelectCtxDone(l))
  /\ \A l \in Loops : SF_vars(WgWait(l))
  /\ \A p \in Producers : SF_vars(ProducerStep(p))

(* ------------------------------------------------------------- claims *)

\* C1: no ConsumeError call ever sends on errorChan after shutdown has closed
\* it: shutdown closes the queue only after every call that passed the
\* 'stopped' check has finished its enqueue.
C1_NoSendAfterClose == panicked # "send on closed errorChan"

C3_StoppedIsTerminal ==
  [][state = "stopped" => state' = "stopped" /\ spawned' = spawned]_vars

\* C4: each of errorChan, interruptChan and signalChan is closed at most
\* once: shutdown never panics on a double close.
C4_ClosedAtMostOnce ==
  \A c \in Channels : panicked # "close of closed " \o c

\* What C5 says a completed shutdown of loop l looks like.
ShutdownComplete(l) ==
  /\ lpc[l] = "exited"
  /\ state = "stopped"
  /\ \A c \in Channels : closed[c]
  /\ \A p \in Producers : ppc[p] = "idle"

\* C5: a worker loop that took a stop trigger eventually completes the
\* shutdown: state stopped, in-flight ConsumeError calls returned, the three
\* channels closed, the loop exited.  A run that a panic ended is let
\* through, so that a violation is a shutdown that hangs, not the crash of C1.
C5_ShutdownCompletes ==
  \A l \in Loops :
    (lpc[l] = "shutdown") ~> (ShutdownComplete(l) \/ panicked # "none")

\* C6: every record is placed on the queue exactly once (a call that returned
\* nil has enqueued its record, and no record is enqueued twice) and is in at
\* most one batch handed to the sink.
C6_OnceQueuedOnceDelivered ==
  /\ \A r \in Records : enqCount[r] <= 1 /\ dlvCount[r] <= enqCount[r]
  /\ \A p \in Producers :
       (ppc[p] = "idle" /\ pres[p] = "nil")
         => enqCount[convertedError(p, pk[p])] = 1

\* C6's case: enqueues and flushes have alternated, so that more records
\* were handed to the sink than the queue holds at one time.
C6_Witness ==
  Cardinality({r \in Records : dlvCount[r] = 1}) > setup.capacity

\* All N x M calls of the workload have returned nil.
AllCallsSucceeded ==
  \A p \in Producers :
    /\ pk[p] = setup.calls
    /\ ppc[p] = "idle"
    /\ \A k \in 1..setup.calls : enqCount[convertedError(p, k)] = 1

\* C7: once a flush that took its snapshot after the last enqueue has handed
\* its batch to the sink, the batches handed over so far hold every enqueued
\* record exactly once: N x M records when all N x M calls succeeded.
C7_ExactlyNTimesM ==
  sinceEnq = "handed" =>
    /\ \A r \in Records : enqCount[r] <= 1 /\ dlvCount[r] = enqCount[r]
    /\ AllCallsSucceeded =>
         Cardinality({r \in Records : dlvCount[r] = 1})
           = NumProducers * setup.calls

\* C7's case: all N x M calls succeeded, N x M is above the queue capacity,
\* and the flush following the last enqueue has handed its batch over.
C7_Witness ==
  /\ sinceEnq = "handed"
  /\ AllCallsSucceeded
  /\ NumProducers * setup.calls > setup.capacity
  /\ \A p \in Producers, k \in 1..setup.calls :
       dlvCount[convertedError(p, k)] = 1

\* The records of a queue content.
RecordsOf(q) == {q[i] : i \in 1..Len(q)}

\* C8: during a flush the batch so far followed by the part of the queue
\* still to be received is exactly the queue content at the size snapshot,
\* so the finished batch is exactly that content; whatever else is on the
\* queue was enqueued later, is not in the batch and stays on the queue.
C8_FlushTakesSnapshot ==
  \A l \in Loops :
    lpc[l] \in {"flush_recv", "trigger"} =>
      LET rem == tempChanSize[l] - li[l]
      IN  /\ rem >= 0
          /\ Len(errorChan) >= rem
          /\ flushedErrors[l] \o SubSeq(errorChan, 1, rem) = lsnap[l]
          /\ RecordsOf(SubSeq(errorChan, rem + 1, Len(errorChan)))
               \cap RecordsOf(lsnap[l]) = {}
          /\ \A r \in RecordsOf(errorChan) :
               enqCount[r] = 1 /\ dlvCount[r] = 0

\* C8's case: a flush has finished with a batch of more than one record
\* while a record enqueued during the drain waits on the queue.
C8_Witness ==
  \E l \in Loops :
    /\ lpc[l] = "trigger"
    /\ Len(flushedErrors[l]) >= 2
    /\ errorChan # <<>>

\* The records handed to the sink so far.
Delivered == {r \in Records : dlvCount[r] > 0}

\* C9: when the worker has stopped (its loop has run shutdown to the end),
\* every record that was enqueued and not yet flushed when the shutdown
\* began has been handed to the sink.
C9_ShutdownFlushes ==
  \A l \in Loops :
    (lpc[l] = "exited" /\ closed["signalChan"]) => atShutdown \subseteq Delivered

\* C10: a loop that leaves its select while a stop trigger is pending leaves
\* it by the stop branch, never by the timer branch.
C10_StopBeforeTimer ==
  [][\A l \in Loops :
       (lpc[l] = "select" /\ StopPending(l) /\ lpc'[l] # "select")
         => lpc'[l] = "shutdown"]_vars

\* C12: a ConsumeError call made while the state is stopped returns
\* WorkerStopped whatever its context (the check comes before the identifier
\* lookups) and leaves the queue and the in-flight counter as they were.
C12_StoppedRejectsAll ==
  [][\A p \in Producers :
       (state = "stopped" /\ pk'[p] # pk[p]) =>
         /\ pres'[p] = consumeErrorWorkerStopped
         /\ ppc'[p] = "idle"
         /\ errorChan' = errorChan
         /\ wg' = wg
         /\ enqCount' = enqCount]_vars

\* C12's case: a call was rejected with WorkerStopped while a record was
\* waiting on the queue.
C12_Witness ==
  \E p \in Producers :
    /\ pres[p] = consumeErrorWorkerStopped
    /\ state = "stopped"
    /\ errorChan # <<>>

\* C13: a call that passed the stopped check with a context lacking the
\* session identifier (the request identifier there or not) returns the
\* missing-session-ID error; with the session identifier but no request
\* identifier it returns the missing-request-ID error; either way it never
\* reaches the send, and its return leaves the queue as it was.
C13_MissingIDErrors ==
  [][\A p \in Producers :
       /\ (ppc[p] = "add" /\ ppc'[p] # "add") =>
            ppc'[p] = IF pctx[p] = "both" THEN "send" ELSE "ret_err"
       /\ (ppc[p] = "ret_err" /\ ppc'[p] # "ret_err") =>
            /\ ppc'[p] = "idle"
            /\ pres'[p] = IF pctx[p] \in {"noSession", "neither"}
                             THEN consumeErrorSessionIDMissing
                             ELSE consumeErrorRequestIDMissing
            /\ errorChan' = errorChan
            /\ enqCount' = enqCount]_vars

\* C13's case: one caller got the missing-session-ID error, another the
\* missing-request-ID error, and nothing was ever enqueued.
C13_Witness ==
  /\ \E p \in Producers : pres[p] = consumeErrorSessionIDMissing
  /\ \E p \in Producers : pres[p] = consumeErrorRequestIDMissing
  /\ \A r \in Records : enqCount[r] = 0
  /\ errorChan = <<>>

\* C14: with both identifiers in the context, the state not stopped and the
\* queue empty, ConsumeError followed by flush() returns exactly one record:
\* its identifiers are the context's, its type is BACKEND, its event is the
\* error's message, and its stack trace is the serialized frame list for a
\* value with a structured stack trace and the event otherwise.
C14_OneRecordPerCall ==
  (ipc = "done" /\ CtxKind(ctxOut) = "both") =>
    /\ Len(ibatch) = 1
    /\ ibatch[1].SessionSecureID = ctxOut["SessionSecureID"]
    /\ ibatch[1].RequestID = ctxOut["RequestID"]
    /\ ibatch[1].Type = "BACKEND"
    /\ ibatch[1].Event = errorInput.msg
    /\ ibatch[1].StackTrace =
         IF errorInput.kind = "stackTracer"
           THEN JsonMarshal(errorInput.stack) ELSE ibatch[1].Event

\* C18: every record on the queue has a non-empty session identifier and a
\* non-empty request identifier.
C18_IdentifiersNonEmpty ==
  \A i \in 1..Len(errorChan) :
    errorChan[i].SessionSecureID # <<>> /\ errorChan[i].RequestID # <<>>

\* The first and second delimiter of the header value, 0 when there is none.
FirstSlash ==
  IF \E i \in 1..Len(hdr) : hdr[i] = "/"
    THEN CHOOSE i \in 1..Len(hdr) :
           hdr[i] = "/" /\ \A j \in 1..(i - 1) : hdr[j] # "/"
    ELSE 0
SecondSlash ==
  IF \E i \in (FirstSlash + 1)..Len(hdr) : hdr[i] = "/"
    THEN CHOOSE i \in (FirstSlash + 1)..Len(hdr) :
           hdr[i] = "/" /\ \A j \in (FirstSlash + 1)..(i - 1) : hdr[j] # "/"
    ELSE Len(hdr) + 1

\* C19: a header value with a delimiter puts what precedes the first
\* delimiter into the context as session identifier and what lies between
\* the first and the second delimiter (or the end) as request identifier;
\* without a delimiter the context comes back as it went in.
C19_InterceptSplits ==
  ipc # "request" =>
    IF FirstSlash = 0
      THEN ctxOut = ctxIn
      ELSE /\ DOMAIN ctxOut = {"SessionSecureID", "RequestID"}
           /\ ctxOut["SessionSecureID"] = SubSeq(hdr, 1, FirstSlash - 1)
           /\ ctxOut["RequestID"] = SubSeq(hdr, FirstSlash + 1, SecondSlash - 1)

\* C19's case: a header value of three parts was split and its first two
\* parts replaced the identifiers of the incoming context.
C19_Witness ==
  /\ ipc = "done"
  /\ Len(Split(hdr)) = 3
  /\ ctxIn = TestCtx
  /\ ctxOut["SessionSecureID"] = <<"a">>
  /\ ctxOut["RequestID"] = <<>>

\* C15: the return of a sink call, with an error as well as with nil, takes
\* the loop back to its select and changes nothing else: the queue, the
\* delivery history (nothing requeued, nothing retried), the callers'
\* results, the lifecycle state; and after a sink error the state is still
\* started with no panic.
C15_SinkErrorIgnored ==
  [][/\ \A l \in Loops :
          (lpc[l] = "in_sink" /\ lpc'[l] # "in_sink") =>
            /\ lpc'[l] = "select"
            /\ errorChan' = errorChan
            /\ dlvCount' = dlvCount
            /\ enqCount' = enqCount
            /\ pres' = pres
            /\ state' = state
            /\ panicked' = panicked
     /\ sinkFailed' =>
          /\ state' = "started"
          /\ panicked' = "none"
          /\ \A p \in Producers :
               pres'[p] \in {"none", "nil", consumeErrorSessionIDMissing,
                             consumeErrorRequestIDMissing}
          /\ \A r \in Records : dlvCount'[r] <= 1]_vars

\* C15's case: after a sink call returned an error the loop has gone through
\* its next timed flush and is handing the next batch to the sink.
C15_Witness ==
  /\ sinkFailed
  /\ \E l \in Loops : lpc[l] = "in_sink"
  /\ Cardinality({r \in Records : dlvCount[r] = 1}) > LoadCap

\* Position of record r in the sequence q, 0 when it is not there.
PosIn(q, r) ==
  IF \E i \in 1..Len(q) : q[i] = r
    THEN CHOOSE i \in 1..Len(q) : q[i] = r
    ELSE 0

\* C16: for two calls of one caller, the earlier call's record A and the
\* later call's record B: when B is on the queue, A is ahead of it on the
\* queue, or in the batch a flush is building, or already handed over; when
\* B is in a batch being built, A is ahead of it in that batch or already
\* handed over; when B has been handed over, so has A.
C16_CallerFifo ==
  \A p \in Producers : \A k1, k2 \in 1..setup.calls :
    (k1 < k2 /\ enqCount[convertedError(p, k1)] = 1
             /\ enqCount[convertedError(p, k2)] = 1) =>
      LET A == convertedError(p, k1)
          B == convertedError(p, k2)
      IN  /\ dlvCount[B] = 1 => dlvCount[A] = 1
          /\ PosIn(errorChan, B) > 0 =>
               \/ dlvCount[A] = 1
               \/ \E l \in Loops : PosIn(flushedErrors[l], A) > 0
               \/ /\ PosIn(errorChan, A) > 0
                  /\ PosIn(errorChan, A) < PosIn(errorChan, B)
          /\ \A l \in Loops :
               PosIn(flushedErrors[l], B) > 0 =>
                 \/ dlvCount[A] = 1
                 \/ /\ PosIn(flushedErrors[l], A) > 0
                    /\ PosIn(flushedErrors[l], A) < PosIn(flushedErrors[l], B)

\* C16's case: a finished batch holds the records of two calls of one
\* caller.
C16_Witness ==
  \E l \in Loops, p \in Producers :
    /\ lpc[l] = "trigger"
    /\ PosIn(flushedErrors[l], convertedError(p, 1)) > 0
    /\ PosIn(flushedErrors[l], convertedError(p, 2)) > 0

\* C17: no batch under construction or complete holds the zero record, and
\* every record in one was enqueued by a ConsumeError call and received
\* from the queue by this flush.
C17_NoSentinelInBatch ==
  \A l \in Loops : \A i \in 1..Len(flushedErrors[l]) :
    /\ flushedErrors[l][i] # ZeroRecord
    /\ flushedErrors[l][i] \in Records
    /\ enqCount[flushedErrors[l][i]] >= 1
    /\ PosIn(lsnap[l], flushedErrors[l][i]) > 0

\* C17's case: a flush that ran after errorChan was closed has finished
\* with a record in its batch.
C17_Witness ==
  \E l \in Loops :
    /\ closed["errorChan"]
    /\ lpc[l] = "trigger"
    /\ flushedErrors[l] # <<>>
    /\ panicked = "none"

\* C20: no Stop call sends on interruptChan after shutdown closed it, and
\* none is blocked in that send when shutdown closes it.
C20_StopNeverSendsOnClosed == panicked # "send on closed interruptChan"

\* C11: after any number of Start calls in a row from idle the program is
\* where one call puts it: state started, one worker loop spawned and at
\* its select, no other loop, channels and counter untouched.
C11_StartIdempotent ==
  startCalls >= 1 =>
    /\ state = "started"
    /\ spawned = 1
    /\ lpc = [l \in Loops |-> IF l = 1 THEN "select" ELSE "none"]
    /\ wg = 0
    /\ interruptChan = 0
    /\ \A c \in Channels : ~closed[c]

\* C11's case: Start was called twice in a row.
C11_Witness == startCalls = 2 /\ ipc = "request" /\ state = "started"

\* C21: a termination signal that arrives after shutdown closed signalChan
\* is never delivered as a send on the closed channel.
C21_NoSignalAfterClose == panicked # "send on closed signalChan"

\* C22: errorChan never holds more records than its capacity; a call that
\* was blocked at its send on the full queue has neither dropped its record
\* nor returned an error: it is still at the send, or its record was
\* enqueued exactly once and the call returns nil.
C22_BoundedAndBlocking ==
  /\ Len(errorChan) <= setup.capacity
  /\ \A p \in Producers : \A k \in 1..pk[p] :
       convertedError(p, k) \in unblocked =>
         IF k = pk[p] /\ ppc[p] = "send"
           THEN enqCount[convertedError(p, k)] = 0
           ELSE /\ enqCount[convertedError(p, k)] = 1
                /\ (k = pk[p] /\ ppc[p] = "idle") => pres[p] = "nil"

\* C22's case: a call that was blocked on the full queue got its record
\* enqueued after a flush freed space, returned nil, and a later flush
\* handed the record to the sink.
C22_Witness ==
  \E p \in Producers :
    /\ ppc[p] = "idle"
    /\ pres[p] = "nil"
    /\ convertedError(p, pk[p]) \in unblocked
    /\ enqCount[convertedError(p, pk[p])] = 1
    /\ dlvCount[convertedError(p, pk[p])] = 1

\* ConsumeError calls that have passed the 'stopped' check of line 380 and
\* have not returned, and worker loops inside the flush of lines 316-318.
CallsInFlight ==
  Cardinality({p \in Producers : ppc[p] \in {"add", "send", "ret_err", "sent"}})
LoopsInFlush ==
  Cardinality({l \in Loops : lpc[l] \in {"flush_len", "flush_recv"}})

\* C23: the in-flight counter is never negative and equals the number of
\* ConsumeError calls past the 'stopped' check and not yet returned, plus
\* one for a worker inside flush; so it is zero when neither is executing.
C23_CounterMatchesInFlight ==
  /\ wg >= 0
  /\ wg = CallsInFlight + LoopsInFlush

\* C24: concurrent Start calls made while the state is idle start exactly
\* one worker loop.
C24_OneLoopFromConcurrentStarts == spawned <= 1

\* The records enqueued so far.
Enqueued == {r \in Records : enqCount[r] = 1}

\* C25: in the idle state no call has returned WorkerStopped; until the
\* first flush after Start takes its snapshot every record enqueued in idle
\* is on the queue and none was delivered; once that flush has handed its
\* batch over all of them were delivered, once each.
C25_IdleRecordsKept ==
  /\ state = "idle" =>
       \A p \in Producers : pres[p] # consumeErrorWorkerStopped
  /\ sinceEnq = "none" =>
       /\ RecordsOf(errorChan) = Enqueued
       /\ Len(errorChan) = Cardinality(Enqueued)
       /\ \A r \in Records : dlvCount[r] = 0
  /\ sinceEnq = "handed" =>
       /\ errorChan = <<>>
       /\ \A r \in Records : dlvCount[r] = enqCount[r] /\ enqCount[r] <= 1

\* C25's case: records were enqueued in idle until the queue was full, the
\* worker was started, and its first flush has handed them all to the sink.
C25_Witness ==
  /\ state = "started"
  /\ sinceEnq = "handed"
  /\ Cardinality(Enqueued) = setup.capacity
  /\ \A r \in Enqueued : dlvCount[r] = 1

\* C26: while the worker is running, with sink calls that return and no
\* stop trigger, every enqueued record is eventually in a batch handed to
\* the sink, and every call waiting at its send eventually returns.
C26_EventuallyDelivered ==
  /\ \A r \in Records :
       (state = "started" /\ enqCount[r] = 1) ~> (dlvCount[r] = 1)
  /\ \A p \in Producers :
       (state = "started" /\ ppc[p] = "send") ~> (ppc[p] = "idle")

\* C26's case: every call of the workload has returned, one of them after
\* waiting on the full queue, and every record was handed to the sink.
C26_Witness ==
  /\ state = "started"
  /\ unblocked # {}
  /\ \A p \in Producers : ppc[p] = "idle" /\ pk[p] = setup.calls
  /\ \A r \in Enqueued : dlvCount[r] = 1
  /\ Cardinality(Enqueued) > setup.capacity

\* C27: while a sink call of a worker loop has not returned, that loop only
\* waits for the call (it drains nothing and takes no stop trigger), the
\* state is and stays "started", no channel is closed or gets closed, and
\* nothing is taken out of the queue.
C27_SinkCallHoldsTheLoop ==
  [][\A l \in Loops : lpc[l] = "in_sink" =>
       /\ lpc'[l] \in {"in_sink", "select"}
       /\ flushedErrors'[l] = flushedErrors[l]
       /\ state = "started" /\ state' = "started"
       /\ \A c \in Channels : ~closed[c] /\ ~closed'[c]
       /\ Len(errorChan') >= Len(errorChan)]_vars

====
